---------------------------- MODULE Spec2Model ----------------------------
(***************************************************************************)
(* A model of sms2mail.py: the ModemManager object-path codec, the         *)
(* selection of received SMS (MMModemMessaging.get_sms) and the delivery   *)
(* loop of main (process_messages, send_email, delete_sms, sleep).         *)
(*                                                                         *)
(* Three specifications share the module:                                  *)
(*   Spec        the delivery loop of main against a remote modem          *)
(*   SpecGetSms  get_sms applied to a listing of SMS objects               *)
(*   SpecCodec   ModemManagerObject.object_path applied to an id or path   *)
(***************************************************************************)
EXTENDS Integers, Sequences, FiniteSets, TLC

VARIABLES
    \* ---- main(): configuration, remote bus state, position in the loop
    cfg,          \* [delete_after_sending, continuous_mode]
    remote,       \* the ModemManager service: modems, readability, SMS objects
    pc,           \* "main" | "send" | "delete" | "cycle_end" | "sleep" | "done" | "crashed"
    messages,     \* the list get_sms() returned to process_messages
    idx,          \* position of the for loop in messages
    trace,        \* send/delete calls issued in the current cycle, in order
    lastSendOk,   \* whether the SMTP dialogue of the latest send_email succeeded
    failedSend,   \* position of the first failed send of the cycle (0: none)
    failedDelete, \* position of the first failed delete of the cycle (0: none)
    fetched,      \* the remote state the current cycle read
    prev,         \* the previous completed cycle: what it read and what it sent
    crash,        \* the uncaught exception that ended main, or "none"
    \* ---- get_sms() on its own
    gsMessages, gsReverse, gsResult, gsPhase,
    \* ---- object_path() on its own
    opKind, opArg, opOut, opRe, opPhase

mainVars == <<cfg, remote, pc, messages, idx, trace, lastSendOk, failedSend,
              failedDelete, fetched, prev, crash>>
gsVars == <<gsMessages, gsReverse, gsResult, gsPhase>>
opVars == <<opKind, opArg, opOut, opRe, opPhase>>
vars == <<mainVars, gsVars, opVars>>

-----------------------------------------------------------------------------
(* Bounds *)

\* longest string drawn as an id, or as the tail of a path
MaxSuffixLen == 3
\* largest integer id drawn
MaxId == 11
\* longest Messages listing handed to get_sms in SpecGetSms
MaxListing == 3
\* most SMS objects on the modem in Spec
MaxMsgs == 3

-----------------------------------------------------------------------------
(* Python values *)

PyNone == [t |-> "none", i |-> 0, s |-> <<>>]
PyInt(n) == [t |-> "int", i |-> n, s |-> <<>>]
PyStr(s) == [t |-> "str", i |-> 0, s |-> s]

Digits == <<"0", "1", "2", "3", "4", "5", "6", "7", "8", "9">>
DigitSet == {Digits[k] : k \in 1..10}
DigitValue(c) == (CHOOSE k \in 1..10 : Digits[k] = c) - 1

\* s.strip(): int() ignores surrounding whitespace
RECURSIVE LStrip(_)
LStrip(s) == IF s # <<>> /\ Head(s) = " " THEN LStrip(Tail(s)) ELSE s
RECURSIVE RStrip(_)
RStrip(s) ==
    IF s # <<>> /\ s[Len(s)] = " " THEN RStrip(SubSeq(s, 1, Len(s) - 1)) ELSE s
Strip(s) == RStrip(LStrip(s))

\* the digits of an integer literal: single underscores may separate digits
DigitsOk(s) ==
    /\ s # <<>>
    /\ \A k \in 1..Len(s) : s[k] \in DigitSet \cup {"_"}
    /\ s[1] # "_" /\ s[Len(s)] # "_"
    /\ \A k \in 1..(Len(s) - 1) : ~(s[k] = "_" /\ s[k + 1] = "_")

RECURSIVE DigitsValue(_, _)
DigitsValue(s, acc) ==
    IF s = <<>> THEN acc
    ELSE IF Head(s) = "_" THEN DigitsValue(Tail(s), acc)
    ELSE DigitsValue(Tail(s), 10 * acc + DigitValue(Head(s)))

\* int(x): [ok, v]; ok = FALSE stands for ValueError / TypeError
int_str(s) ==
    LET b == Strip(s)
        signed == b # <<>> /\ Head(b) \in {"-", "+"}
        d == IF signed THEN Tail(b) ELSE b
    IN  IF DigitsOk(d)
        THEN [ok |-> TRUE,
              v |-> IF signed /\ Head(b) = "-" THEN 0 - DigitsValue(d, 0)
                    ELSE DigitsValue(d, 0)]
        ELSE [ok |-> FALSE, v |-> 0]

int(x) ==
    CASE x.t = "int" -> [ok |-> TRUE, v |-> x.i]
      [] x.t = "str" -> int_str(x.s)
      [] OTHER -> [ok |-> FALSE, v |-> 0]

\* "%d" % n
RECURSIVE FormatNat(_)
FormatNat(n) ==
    IF n < 10 THEN <<Digits[n + 1]>>
    ELSE FormatNat(n \div 10) \o <<Digits[(n % 10) + 1]>>
FormatInt(n) == IF n < 0 THEN <<"-">> \o FormatNat(0 - n) ELSE FormatNat(n)

\* sub in s
Contains(s, sub) ==
    \E k \in 0..(Len(s) - Len(sub)) : SubSeq(s, k + 1, k + Len(sub)) = sub

\* s.split('/')[-1]
RECURSIVE LastSegment(_)
LastSegment(s) ==
    IF s = <<>> \/ s[Len(s)] = "/" THEN <<>>
    ELSE LastSegment(SubSeq(s, 1, Len(s) - 1)) \o <<s[Len(s)]>>

-----------------------------------------------------------------------------
(* ModemManagerObject.object_path *)

\* "/org/freedesktop/ModemManager1/%s/" % obj
objbasepath(obj) ==
    <<"/", "org", "/", "freedesktop", "/", "ModemManager1", "/", obj, "/">>

object_path(obj, path) ==
    LET objid == IF path.t = "str" /\ Contains(path.s, objbasepath(obj))
                 THEN PyStr(LastSegment(path.s))
                 ELSE path
        n == int(objid)
    IN  IF n.ok THEN PyStr(objbasepath(obj) \o FormatInt(n.v)) ELSE PyNone


-----------------------------------------------------------------------------
(* MMSmsState *)

MM_SMS_STATE_UNKNOWN == 0
MM_SMS_STATE_STORED == 1
MM_SMS_STATE_RECEIVING == 2
MM_SMS_STATE_RECEIVED == 3
MM_SMS_STATE_SENDING == 4
MM_SMS_STATE_SENT == 5

-----------------------------------------------------------------------------
(* SMS objects on the bus, and MMModemSms, the snapshot of one *)

\* The Timestamp property: absent, or a string that is empty, not ISO-8601,
\* ISO-8601 without a UTC offset (local time t), or with one (local time t,
\* offset off).
StampNone == [k |-> "none", t |-> 0, off |-> 0]
StampEmpty == [k |-> "empty", t |-> 0, off |-> 0]
StampBad == [k |-> "bad", t |-> 0, off |-> 0]
StampNaive(t) == [k |-> "naive", t |-> t, off |-> 0]
StampAware(t, off) == [k |-> "aware", t |-> t, off |-> off]

\* The object path ModemManager lists for SMS number id
SmsPath(id) == objbasepath("SMS") \o FormatInt(id)

\* DBusInterface.get_properties: GetAll, or None when the bus call raises
get_properties(o) ==
    IF o.readable
    THEN [has |-> TRUE, State |-> o.State, Timestamp |-> o.Timestamp]
    ELSE [has |-> FALSE, State |-> PyNone, Timestamp |-> StampNone]

\* MMModemSms(x): the path is re-encoded, the properties are fetched once
MMModemSms(o) ==
    [id |-> o.id,
     obj_path |-> object_path("SMS", PyStr(SmsPath(o.id))),
     properties |-> get_properties(o)]

\* DBusInterface.get_property('State'), 'Timestamp'
State(x) == IF x.properties.has THEN x.properties.State ELSE PyNone
Timestamp(x) == IF x.properties.has THEN x.properties.Timestamp ELSE StampNone

\* A datetime: naive (no tzinfo) or aware; v is the wall-clock time of a
\* naive one and the UTC instant of an aware one, which is what < compares.
NoDatetime == [has |-> FALSE, aware |-> FALSE, v |-> 0]
datetime_min == [has |-> TRUE, aware |-> FALSE, v |-> 0]

\* datetime.fromisoformat: [ok, dt]; ok = FALSE stands for ValueError
fromisoformat(stamp) ==
    CASE stamp.k = "naive" ->
            [ok |-> TRUE, dt |-> [has |-> TRUE, aware |-> FALSE, v |-> stamp.t]]
      [] stamp.k = "aware" ->
            [ok |-> TRUE,
             dt |-> [has |-> TRUE, aware |-> TRUE, v |-> stamp.t - stamp.off]]
      [] OTHER -> [ok |-> FALSE, dt |-> NoDatetime]

get_datetime(x) ==
    LET stamp == Timestamp(x)
    IN  IF stamp.k \notin {"none", "empty"} /\ fromisoformat(stamp).ok
        THEN fromisoformat(stamp).dt
        ELSE NoDatetime

-----------------------------------------------------------------------------
(* MMModemMessaging.get_sms *)

\* lambda x: x.get_datetime() or datetime.min
SortKey(x) == IF get_datetime(x).has THEN get_datetime(x) ELSE datetime_min

\* mutant: only outbound messages are filtered out
IsReceived_NotOutbound(x) ==
    State(x) \notin {PyInt(MM_SMS_STATE_SENDING), PyInt(MM_SMS_STATE_SENT)}

\* lambda x: x.State() == MMSmsState.MM_SMS_STATE_RECEIVED
IsReceived(x) == State(x) = PyInt(MM_SMS_STATE_RECEIVED)

Reverse(s) == [k \in 1..Len(s) |-> s[Len(s) + 1 - k]]

\* comparing a naive with an aware datetime raises TypeError
CompareRaises(s) ==
    \E a, b \in 1..Len(s) : SortKey(s[a]).aware # SortKey(s[b]).aware

\* list.sort is stable: x goes behind every element that is not greater
RECURSIVE InsertSorted(_, _)
InsertSorted(s, x) ==
    IF s = <<>> THEN <<x>>
    ELSE IF SortKey(x).v < SortKey(Head(s)).v THEN <<x>> \o s
    ELSE <<Head(s)>> \o InsertSorted(Tail(s), x)

RECURSIVE StableSort(_)
StableSort(s) ==
    IF s = <<>> THEN <<>>
    ELSE InsertSorted(StableSort(SubSeq(s, 1, Len(s) - 1)), s[Len(s)])

\* list.sort(key=..., reverse=reverse): with reverse the list is reversed,
\* sorted ascending and reversed again, which keeps equal keys in order
list_sort(s, reverse) ==
    IF reverse THEN Reverse(StableSort(Reverse(s))) ELSE StableSort(s)

\* get_sms(sms=None, reverse): listed is what self.Messages() returns,
\* [has, v], has = FALSE being the None of a failed property fetch, over
\* which map() raises TypeError.
\* Result: [raised, value]; raised names the exception that left get_sms.
get_sms(listed, reverse) ==
    IF ~listed.has
    THEN [raised |-> "TypeError_map", value |-> <<>>]
    ELSE LET snaps == [k \in 1..Len(listed.v) |-> MMModemSms(listed.v[k])]
             kept == SelectSeq(snaps, IsReceived)
         IN  IF CompareRaises(kept)
             THEN [raised |-> "TypeError_sort", value |-> <<>>]
             ELSE [raised |-> "none", value |-> list_sort(kept, reverse)]

-----------------------------------------------------------------------------
(* SpecGetSms: get_sms applied to every listing of up to MaxListing objects *)

ReceivedStamps ==
    {StampNone, StampEmpty, StampBad, StampNaive(1), StampNaive(2),
     StampAware(1, 0), StampAware(2, 1), StampAware(2, 0)}

\* what one listed object may be: Received with any timestamp; any other
\* state, or no State property; Sent with an aware timestamp; unreadable
GsObjects ==
    [readable : {TRUE}, State : {PyInt(MM_SMS_STATE_RECEIVED)},
     Timestamp : ReceivedStamps]
    \cup [readable : {TRUE},
          State : {PyInt(MM_SMS_STATE_UNKNOWN), PyInt(MM_SMS_STATE_STORED),
                   PyInt(MM_SMS_STATE_RECEIVING), PyInt(MM_SMS_STATE_SENDING),
                   PyInt(MM_SMS_STATE_SENT), PyNone},
          Timestamp : {StampNaive(1)}]
    \cup [readable : {TRUE}, State : {PyInt(MM_SMS_STATE_SENT)},
          Timestamp : {StampAware(2, 0)}]
    \cup [readable : {FALSE}, State : {PyInt(MM_SMS_STATE_RECEIVED)},
          Timestamp : {StampNaive(2)}]

\* a listing: object k of the listing is SMS number k
WithIds(f) ==
    [k \in 1..Len(f) |->
        [id |-> k, readable |-> f[k].readable, State |-> f[k].State,
         Timestamp |-> f[k].Timestamp]]

NoResult == [raised |-> "none", value |-> <<>>]

IdleGs ==
    /\ gsMessages = <<>> /\ gsReverse = TRUE
    /\ gsResult = NoResult /\ gsPhase = "idle"

InitGetSms_gs ==
    /\ \E n \in 0..MaxListing : \E f \in [1..n -> GsObjects] :
            gsMessages = WithIds(f)
    /\ gsReverse \in BOOLEAN
    /\ gsResult = NoResult
    /\ gsPhase = "call"

\* messaging.get_sms(reverse=gsReverse) on a readable Messages property
GetSms ==
    /\ gsPhase = "call"
    /\ gsResult' = get_sms([has |-> TRUE, v |-> gsMessages], gsReverse)
    /\ gsPhase' = "returned"
    /\ UNCHANGED <<gsMessages, gsReverse, mainVars, opVars>>

-----------------------------------------------------------------------------
(* SpecCodec: object_path applied to ids and paths, and to its own result *)

RawAlphabet == {"0", "1", "-", "+", " ", "_", "a", "/"}
Kinds == {"Modem", "SMS"}

\* the arguments built from a raw string s: s itself, and a base path of
\* either kind followed by s, possibly with text in front
StringInputs(s) ==
    {PyStr(s)}
    \cup {PyStr(p \o objbasepath(k) \o s) : p \in {<<>>, <<"a">>}, k \in Kinds}

IdleOp ==
    /\ opKind = "SMS" /\ opArg = PyNone /\ opOut = PyNone /\ opRe = PyNone
    /\ opPhase = "idle"

InitCodec_op ==
    /\ opKind \in Kinds
    /\ \/ opArg = PyNone
       \/ \E n \in (0 - 2)..MaxId : opArg = PyInt(n)
       \/ \E n \in 0..MaxSuffixLen : \E s \in [1..n -> RawAlphabet] :
            opArg \in StringInputs(s)
    /\ opOut = PyNone /\ opRe = PyNone
    /\ opPhase = "call"

Encode ==
    /\ opPhase = "call"
    /\ opOut' = object_path(opKind, opArg)
    /\ opPhase' = "encoded"
    /\ UNCHANGED <<opKind, opArg, opRe, mainVars, gsVars>>

\* the path a first call produced is passed in again (get_first -> get_modem,
\* get_sms -> MMModemSms)
ReEncode ==
    /\ opPhase = "encoded"
    /\ opOut # PyNone
    /\ opRe' = object_path(opKind, opOut)
    /\ opPhase' = "reencoded"
    /\ UNCHANGED <<opKind, opArg, opOut, mainVars, gsVars>>

-----------------------------------------------------------------------------
(* main: the remote service *)

ModemPath(id) == objbasepath("Modem") \o FormatInt(id)

\* what one SMS object on the modem may be in Spec
MainObjects ==
    [readable : {TRUE}, State : {PyInt(MM_SMS_STATE_RECEIVED)},
     Timestamp : {StampNaive(1), StampNaive(2), StampAware(2, 0)}]
    \cup [readable : {TRUE}, State : {PyInt(MM_SMS_STATE_SENT)},
          Timestamp : {StampNaive(1)}]
    \cup [readable : {FALSE}, State : {PyInt(MM_SMS_STATE_RECEIVED)},
          Timestamp : {StampNaive(2)}]

\* modems: the paths GetManagedObjects lists; modemOk / messagingOk: whether
\* GetAll on the modem's Modem / Modem.Messaging interface answers; sms: the
\* objects of the Messages property, in its order; nextId: the next SMS number
Remotes(l) ==
    {[modems |-> <<>>, modemOk |-> TRUE, messagingOk |-> TRUE,
      sms |-> l, nextId |-> Len(l) + 1]}
    \cup {[modems |-> <<ModemPath(0)>>, modemOk |-> a, messagingOk |-> b,
           sms |-> l, nextId |-> Len(l) + 1] : a \in BOOLEAN, b \in BOOLEAN}

\* ModemManager.get_first -> get_modem -> MMModem: [has, obj_path, properties]
get_first(r) ==
    LET mpath == IF r.modems = <<>> THEN PyNone
                 ELSE object_path("Modem", PyStr(r.modems[1]))
    IN  IF r.modems # <<>> /\ \E k \in 1..Len(r.modems) : PyStr(r.modems[k]) = mpath
        THEN [has |-> TRUE, obj_path |-> mpath, properties |-> r.modemOk]
        ELSE [has |-> FALSE, obj_path |-> PyNone, properties |-> FALSE]

\* MMModemMessaging(modem).Messages(): get_property('Messages')
Messages(r) ==
    IF r.messagingOk THEN [has |-> TRUE, v |-> r.sms]
    ELSE [has |-> FALSE, v |-> <<>>]

\* the Messaging.Delete bus call: the object leaves the Messages listing
Delete(r, sms_path) ==
    [r EXCEPT !.sms = SelectSeq(r.sms, LAMBDA o : PyStr(SmsPath(o.id)) # sms_path)]

-----------------------------------------------------------------------------
(* main: send_email, delete_sms and the loop *)

\* mutant: the except clause is missing, an SMTP failure leaves send_email
send_email_Propagates(smtpOk) == [raised |-> ~smtpOk, delivered |-> smtpOk]

\* send_email: the SMTP dialogue runs inside try/except Exception, so a
\* failure is logged and the call returns
send_email(smtpOk) == [raised |-> FALSE, delivered |-> smtpOk]

\* delete_sms raises what the bus call raises
delete_sms(busOk) == [raised |-> ~busOk]

\* mutant: delete_sms is called outside try/except
TryDelete_Uncaught(busOk) ==
    [raised |-> delete_sms(busOk).raised, deleted |-> ~delete_sms(busOk).raised]

\* try: messaging.delete_sms(...) except Exception: logging.error(...)
TryDelete(busOk) == [raised |-> FALSE, deleted |-> ~delete_sms(busOk).raised]

\* mutant: the delete is skipped when the send failed
ShouldDelete_OnlyIfSent(c, sendOk) == c.delete_after_sending /\ sendOk

\* mutant: the delete_after_sending flag is ignored
ShouldDelete_Always(c, sendOk) == TRUE

\* if delete_after_sending: (send_email returns nothing, so the outcome of
\* the send is not consulted)
ShouldDelete(c, sendOk) == c.delete_after_sending

Event(op, m) == [op |-> op, id |-> m.id]

\* the for loop moves to the next message, or process_messages returns
Advance ==
    IF idx < Len(messages)
    THEN idx' = idx + 1 /\ pc' = "send"
    ELSE idx' = idx /\ pc' = "cycle_end"

Init_main ==
    /\ cfg \in [delete_after_sending : BOOLEAN, continuous_mode : BOOLEAN]
    /\ \E n \in 0..MaxMsgs : \E f \in [1..n -> MainObjects] :
            remote \in Remotes(WithIds(f))
    /\ pc = "main"
    /\ messages = <<>>
    /\ idx = 0
    /\ trace = <<>>
    /\ lastSendOk = FALSE
    /\ failedSend = 0
    /\ failedDelete = 0
    /\ fetched = remote
    /\ prev = [has |-> FALSE, remote |-> remote, sends |-> <<>>]
    /\ crash = "none"

IdleMain ==
    /\ cfg = [delete_after_sending |-> FALSE, continuous_mode |-> FALSE]
    /\ remote = [modems |-> <<>>, modemOk |-> TRUE, messagingOk |-> TRUE,
                 sms |-> <<>>, nextId |-> 1]
    /\ pc = "idle"
    /\ messages = <<>>
    /\ idx = 0
    /\ trace = <<>>
    /\ lastSendOk = FALSE
    /\ failedSend = 0
    /\ failedDelete = 0
    /\ fetched = remote
    /\ prev = [has |-> FALSE, remote |-> remote, sends |-> <<>>]
    /\ crash = "none"

\* process_messages up to the for loop: ModemManager(), get_first(),
\* MMModemMessaging(modem), messaging.get_sms()
Fetch ==
    /\ pc = "main"
    /\ fetched' = remote
    /\ trace' = <<>>
    /\ lastSendOk' = FALSE
    /\ failedSend' = 0
    /\ failedDelete' = 0
    /\ LET modem == get_first(remote)
           r == get_sms(Messages(remote), TRUE)
       IN  IF ~modem.has
           THEN messages' = <<>> /\ idx' = 0 /\ pc' = "cycle_end" /\ crash' = crash
           ELSE IF r.raised # "none"
           THEN messages' = <<>> /\ idx' = 0 /\ pc' = "crashed" /\ crash' = r.raised
           ELSE /\ messages' = r.value
                /\ crash' = crash
                /\ IF r.value = <<>>
                   THEN idx' = 0 /\ pc' = "cycle_end"
                   ELSE idx' = 1 /\ pc' = "send"
    /\ UNCHANGED <<cfg, remote, prev, gsVars, opVars>>

\* the loop body up to and including send_email(...)
SendEmail ==
    /\ pc = "send"
    /\ \E smtpOk \in BOOLEAN :
        LET r == send_email(smtpOk)
        IN  /\ trace' = Append(trace, Event("send", messages[idx]))
            /\ lastSendOk' = r.delivered
            /\ failedSend' = IF ~r.delivered /\ failedSend = 0 THEN idx ELSE failedSend
            /\ IF r.raised
               THEN pc' = "crashed" /\ crash' = "SMTPException" /\ idx' = idx
               ELSE /\ crash' = crash
                    /\ IF ShouldDelete(cfg, r.delivered)
                       THEN pc' = "delete" /\ idx' = idx
                       ELSE Advance
    /\ UNCHANGED <<cfg, remote, messages, failedDelete, fetched, prev,
                   gsVars, opVars>>

\* if delete_after_sending: try: messaging.delete_sms(msg.get_object_path())
DeleteSms ==
    /\ pc = "delete"
    /\ \E busOk \in BOOLEAN :
        LET r == TryDelete(busOk)
        IN  /\ trace' = Append(trace, Event("delete", messages[idx]))
            /\ remote' = IF r.deleted THEN Delete(remote, messages[idx].obj_path)
                         ELSE remote
            /\ failedDelete' = IF ~r.deleted /\ failedDelete = 0 THEN idx
                               ELSE failedDelete
            /\ IF r.raised
               THEN pc' = "crashed" /\ crash' = "DBusException" /\ idx' = idx
               ELSE crash' = crash /\ Advance
    /\ UNCHANGED <<cfg, messages, lastSendOk, failedSend, fetched, prev,
                   gsVars, opVars>>

SendIds(tr) == LET s == SelectSeq(tr, LAMBDA e : e.op = "send")
               IN  [k \in 1..Len(s) |-> s[k].id]

\* process_messages returns to main: while True ... sleep, or main returns
Return ==
    /\ pc = "cycle_end"
    /\ pc' = IF cfg.continuous_mode THEN "sleep" ELSE "done"
    /\ prev' = [has |-> TRUE, remote |-> fetched, sends |-> SendIds(trace)]
    /\ messages' = <<>>
    /\ idx' = 0
    /\ trace' = <<>>
    /\ lastSendOk' = FALSE
    /\ failedSend' = 0
    /\ failedDelete' = 0
    /\ UNCHANGED <<cfg, remote, fetched, crash, gsVars, opVars>>

\* sleep(interval) elapses
Sleep ==
    /\ pc = "sleep"
    /\ pc' = "main"
    /\ UNCHANGED <<cfg, remote, messages, idx, trace, lastSendOk, failedSend,
                   failedDelete, fetched, prev, crash, gsVars, opVars>>

\* the network delivers an SMS to the modem while main runs
SmsArrives ==
    /\ pc \in {"main", "send", "delete", "cycle_end", "sleep"}
    /\ remote.nextId <= MaxMsgs
    /\ \E o \in MainObjects :
        remote' = [remote EXCEPT
                     !.sms = Append(@, [id |-> remote.nextId, readable |-> o.readable,
                                        State |-> o.State, Timestamp |-> o.Timestamp]),
                     !.nextId = @ + 1]
    /\ UNCHANGED <<cfg, pc, messages, idx, trace, lastSendOk, failedSend,
                   failedDelete, fetched, prev, crash, gsVars, opVars>>

-----------------------------------------------------------------------------
(* Specifications *)

Init == Init_main /\ IdleGs /\ IdleOp
Next == Fetch \/ SendEmail \/ DeleteSms \/ Return \/ Sleep \/ SmsArrives
Spec == Init /\ [][Next]_vars

InitGetSms == IdleMain /\ InitGetSms_gs /\ IdleOp
NextGetSms == GetSms
SpecGetSms == InitGetSms /\ [][NextGetSms]_vars

InitCodec == IdleMain /\ IdleGs /\ InitCodec_op
NextCodec == Encode \/ ReEncode
SpecCodec == InitCodec /\ [][NextCodec]_vars

-----------------------------------------------------------------------------
(* Properties of the delivery loop (Spec) *)

InCycle == pc \in {"send", "delete", "cycle_end"}

\* messages the loop body has finished with
Handled ==
    CASE pc = "send" -> idx - 1
      [] pc = "delete" -> idx
      [] pc = "cycle_end" -> Len(messages)
      [] OTHER -> 0

\* call number k of send(m1), delete(m1), send(m2), delete(m2), ...
SendDeletePairs(msgs, k) ==
    Event(IF k % 2 = 1 THEN "send" ELSE "delete", msgs[(k + 1) \div 2])

Count(tr, e) == Cardinality({k \in 1..Len(tr) : tr[k] = e})

\* C1: with delete-after-send enabled, the calls of a cycle over the n
\* messages get_sms returned are send(m1), delete(m1), ..., send(mn),
\* delete(mn) in that order: at every point the calls issued so far are a
\* prefix of that sequence, a delete being due exactly after its own send,
\* and when the cycle ends all 2n calls have been issued.
C1_SendDeleteInterleaved ==
    (cfg.delete_after_sending /\ InCycle) =>
        /\ Len(trace) <= 2 * Len(messages)
        /\ \A k \in 1..Len(trace) : trace[k] = SendDeletePairs(messages, k)
        /\ pc = "send" => Len(trace) = 2 * (idx - 1)
        /\ pc = "delete" => Len(trace) = 2 * idx - 1
        /\ pc = "cycle_end" => Len(trace) = 2 * Len(messages)

C1_Witness ==
    /\ cfg.delete_after_sending
    /\ pc = "cycle_end"
    /\ Len(messages) = 2
    /\ Len(trace) = 4
    /\ failedSend # 0

\* C2: with delete-after-send enabled, delete_sms is called for a message
\* only after the send of that message succeeded.
C2_DeleteOnlyAfterSuccessfulSend ==
    (trace # <<>> /\ trace[Len(trace)].op = "delete") => lastSendOk

\* C3: a failed send does not end the cycle or the run, and no message is
\* sent twice: the sends issued are exactly one per handled message, in
\* get_sms order, so at the end of the cycle every message, those after a
\* failed one included, has had exactly one send attempt.
C3_SendFailureDoesNotAbort ==
    /\ failedSend # 0 => (InCycle /\ crash = "none")
    /\ InCycle =>
        /\ SendIds(trace) = [k \in 1..Handled |-> messages[k].id]
        /\ \A k \in 1..Handled : Count(trace, Event("send", messages[k])) = 1

C3_Witness ==
    /\ pc = "cycle_end"
    /\ failedSend = 1
    /\ Len(messages) >= 2
    /\ Count(trace, Event("send", messages[2])) = 1

\* C4: with delete-after-send enabled, a failed delete does not end the
\* cycle or the run: when the cycle ends, every message after the one whose
\* delete failed has had its send and then its delete.
C4_DeleteFailureDoesNotBlock ==
    failedDelete # 0 =>
        /\ InCycle /\ crash = "none"
        /\ pc = "cycle_end" =>
            \A k \in (failedDelete + 1)..Len(messages) :
                /\ Count(trace, Event("send", messages[k])) = 1
                /\ Count(trace, Event("delete", messages[k])) = 1
                /\ trace[2 * k - 1] = Event("send", messages[k])
                /\ trace[2 * k] = Event("delete", messages[k])

C4_Witness ==
    /\ pc = "cycle_end"
    /\ failedDelete = 1
    /\ Len(messages) >= 2
    /\ Count(trace, Event("delete", messages[2])) = 1

ReceivedIds(r) ==
    {r.sms[k].id : k \in {j \in 1..Len(r.sms) :
        r.sms[j].readable /\ r.sms[j].State = PyInt(MM_SMS_STATE_RECEIVED)}}

\* C7: with delete-after-send disabled no delete is ever issued, a cycle
\* sends every Received message it read, and a cycle that read the same
\* remote state as the cycle before it issues the same sends in the same
\* order.
C7_NoStateAcrossCycles ==
    ~cfg.delete_after_sending =>
        /\ \A k \in 1..Len(trace) : trace[k].op = "send"
        /\ pc = "cycle_end" /\ fetched.modems # <<>> =>
            {trace[k].id : k \in 1..Len(trace)} = ReceivedIds(fetched)
        /\ (pc = "cycle_end" /\ prev.has /\ prev.remote = fetched) =>
            SendIds(trace) = prev.sends

C7_Witness ==
    /\ ~cfg.delete_after_sending
    /\ pc = "cycle_end"
    /\ prev.has
    /\ prev.remote = fetched
    /\ Len(prev.sends) = 2
    /\ Len(trace) = 2

\* C8: a one-shot run performs exactly one cycle and returns, never
\* sleeping and never starting a second cycle; a continuous run never ends.
C8_Scheduling ==
    /\ ~cfg.continuous_mode =>
        /\ pc # "sleep"
        /\ pc = "done" <=> prev.has
    /\ cfg.continuous_mode => pc \notin {"done", "crashed"}

\* whether the cycle met a property fetch that failed
FetchFailed(r) ==
    /\ get_first(r).has
    /\ \/ ~r.modemOk
       \/ ~r.messagingOk
       \/ r.messagingOk /\ \E k \in 1..Len(r.sms) : ~r.sms[k].readable

\* C10: a failed property fetch on the modem, the messaging interface or a
\* message is not raised further: no cycle that met one is ended by an
\* exception that the absent properties caused.
C10_FetchFailureNotRaised ==
    FetchFailed(fetched) => crash # "TypeError_map"

-----------------------------------------------------------------------------
(* Properties of get_sms (SpecGetSms) *)

\* C5: get_sms returns only messages whose snapshotted State is Received;
\* a message in another state, without a State property or whose properties
\* could not be fetched is not returned.
C5_OnlyReceived ==
    gsPhase = "returned" =>
        \A k \in 1..Len(gsResult.value) :
            LET x == gsResult.value[k]
            IN  /\ State(x) = PyInt(MM_SMS_STATE_RECEIVED)
                /\ gsMessages[x.id].readable
                /\ gsMessages[x.id].State = PyInt(MM_SMS_STATE_RECEIVED)

C5_Witness ==
    /\ gsPhase = "returned"
    /\ Len(gsResult.value) = 1
    /\ \E k \in 1..Len(gsMessages) : gsMessages[k].State = PyNone
    /\ \E k \in 1..Len(gsMessages) : ~gsMessages[k].readable

\* the time a message sorts by: a missing or unparseable one is the earliest
ClaimedKey(x) == IF get_datetime(x).has THEN get_datetime(x).v ELSE 0

\* C6: get_sms returns, without raising, all Received messages sorted by
\* parsed timestamp, descending with reverse and ascending without, a
\* missing or unparseable timestamp counting as the earliest, and messages
\* with equal keys in the order of the Messages listing.
C6_SortedStable ==
    gsPhase = "returned" =>
        LET out == gsResult.value
        IN  /\ gsResult.raised = "none"
            /\ {out[k].id : k \in 1..Len(out)} =
                   {gsMessages[k].id : k \in {j \in 1..Len(gsMessages) :
                        IsReceived(MMModemSms(gsMessages[j]))}}
            /\ \A a, b \in 1..Len(out) : a < b =>
                /\ gsReverse => ClaimedKey(out[a]) >= ClaimedKey(out[b])
                /\ ~gsReverse => ClaimedKey(out[a]) <= ClaimedKey(out[b])
                /\ ClaimedKey(out[a]) = ClaimedKey(out[b]) => out[a].id < out[b].id

-----------------------------------------------------------------------------
(* Properties of object_path (SpecCodec) *)

\* the decimal numeral of a non-negative integer
IsNumeral(s) ==
    /\ s # <<>>
    /\ \A k \in 1..Len(s) : s[k] \in DigitSet
    /\ Len(s) > 1 => s[1] # "0"

WellFormedPath(kind, arg) ==
    /\ arg.t = "str"
    /\ Len(arg.s) > Len(objbasepath(kind))
    /\ SubSeq(arg.s, 1, Len(objbasepath(kind))) = objbasepath(kind)
    /\ IsNumeral(SubSeq(arg.s, Len(objbasepath(kind)) + 1, Len(arg.s)))

\* the part of a string argument that is read as the id
IdPart(kind, arg) ==
    IF Contains(arg.s, objbasepath(kind)) THEN LastSegment(arg.s) ELSE arg.s

\* absent, a negative integer, or a string whose id part int() does not
\* read as a non-negative integer
Malformed(kind, arg) ==
    \/ arg.t = "none"
    \/ arg.t = "int" /\ arg.i < 0
    \/ arg.t = "str" /\ ~(int_str(IdPart(kind, arg)).ok
                          /\ int_str(IdPart(kind, arg)).v >= 0)

\* C9: object_path maps a non-negative integer id to the base path of the
\* kind followed by the id, maps a well-formed path of the kind to itself
\* (and its own result to itself), and maps a malformed input to None.
C9_ObjectPathCodec ==
    opPhase \in {"encoded", "reencoded"} =>
        /\ (opArg.t = "int" /\ opArg.i >= 0) =>
                opOut = PyStr(objbasepath(opKind) \o FormatNat(opArg.i))
        /\ WellFormedPath(opKind, opArg) => opOut = opArg
        /\ opPhase = "reencoded" => opRe = opOut
        /\ Malformed(opKind, opArg) => opOut = PyNone

=============================================================================
